---- MODULE Spec2Model ----
(***************************************************************************)
(* Model of the free5GC UPF operator charm (src/src/charm.py).             *)
(*                                                                         *)
(* The charm observes two events, config-changed and remove.  The runtime  *)
(* delivers one event at a time; a handler is a sequence of blocking       *)
(* external calls (Kubernetes API, pebble push / exec / add_layer /        *)
(* replan).  Every external call is one step of the model; its outcome is  *)
(* chosen by the environment.  An exception that no handler code catches   *)
(* ends the handler; result then names the exception.                      *)
(***************************************************************************)
EXTENDS Naturals, Sequences, FiniteSets, TLC

VARIABLES
    config,       \* self.model.config: the nine settings
    canConnect,   \* answer of self._container.can_connect()
    stable,       \* environment: TRUE once no external call fails any more
    nads,         \* Kubernetes: the NetworkAttachmentDefinitions, by network
    sts,          \* Kubernetes: pod-template metadata of the StatefulSet
    marker,       \* container: `ip rule list` prints the n6if policy rule
    file,         \* container: content of /free5gc/config/upfcfg.yaml
    layers,       \* pebble: the configuration layers of the container
    started,      \* pebble: services started by replan
    status,       \* self.unit.status
    deferred,     \* a deferred config-changed event is stored
    pending,      \* handler still to run in the current dispatch
    handler,      \* handler running now, or the last one that ran
    pc,           \* position inside the handler
    result,       \* how the handler ended
    statefulset,  \* local of _add_statefulset_pod_network_annotation
    calls,        \* external calls issued by the handler, in order
    pre,          \* external state when the handler was entered
    ruleFailed    \* a rule command of this invocation exited non-zero

vars == <<config, canConnect, stable, nads, sts, marker, file, layers, started,
          status, deferred, pending, handler, pc, result, statefulset, calls, pre,
          ruleFailed>>

-----------------------------------------------------------------------------
(* Program constants.                                                      *)

BASE_CONFIG_PATH == "/free5gc/config"
CONFIG_FILE_NAME == "upfcfg.yaml"
(* f"{BASE_CONFIG_PATH}/{CONFIG_FILE_NAME}"                                 *)
CONFIG_FILE_PATH == BASE_CONFIG_PATH \o "/" \o CONFIG_FILE_NAME
N3_NETWORK_ATTACHMENT_DEFINITION_NAME == "n3network-free5gc-v1-free5gc-upf"
N4_NETWORK_ATTACHMENT_DEFINITION_NAME == "n4network-free5gc-v1-free5gc-upf"
N6_NETWORK_ATTACHMENT_DEFINITION_NAME == "n6network-free5gc-v1-free5gc-upf"
MULTUS_KEY == "k8s.v1.cni.cncf.io/networks"
RULE_MARKER == "from 10.1.0.0/16 table n6if"
container_name == "free5gc-upf"
service_name == "free5gc-upf"

Networks == {"n3", "n4", "n6"}

NadName(k) ==
    CASE k = "n3" -> N3_NETWORK_ATTACHMENT_DEFINITION_NAME
      [] k = "n4" -> N4_NETWORK_ATTACHMENT_DEFINITION_NAME
      [] k = "n6" -> N6_NETWORK_ATTACHMENT_DEFINITION_NAME

(* Values supplied by the hosting environment: self.model.name and         *)
(* self.app.name.                                                          *)
model_name == "whatever"
app_name == "free5gc-upf"

-----------------------------------------------------------------------------
(* Strings that the code takes apart are sequences of characters.          *)

Cidr34 == <<"1", ".", "2", ".", "3", ".", "4", "/", "2", "9">>
Cidr35 == <<"1", ".", "2", ".", "3", ".", "5", "/", "2", "9">>
Cidr36 == <<"1", ".", "2", ".", "3", ".", "6", "/", "2", "9">>
Cidr37 == <<"1", ".", "2", ".", "3", ".", "7", "/", "2", "4">>
Bare38 == <<"1", ".", "2", ".", "3", ".", "8">>

Settings ==
    {"n3-cidr", "n3-gateway", "n3-interface",
     "n4-cidr", "n4-gateway", "n4-interface",
     "n6-cidr", "n6-gateway", "n6-interface"}

(* The configuration of the unit tests.                                    *)
TestConfig ==
    [s \in Settings |->
        CASE s = "n3-cidr" -> Cidr34
          [] s = "n3-gateway" -> "5.6.7.1"
          [] s = "n3-interface" -> "eth0"
          [] s = "n4-cidr" -> Cidr35
          [] s = "n4-gateway" -> "5.6.7.2"
          [] s = "n4-interface" -> "eth0"
          [] s = "n6-cidr" -> Cidr36
          [] s = "n6-gateway" -> "5.6.7.3"
          [] s = "n6-interface" -> "eth1"]

(* Another value for some of the settings.  No setting is validated, so a  *)
(* CIDR setting may also lack its prefix.                                  *)
Alternatives(s) ==
    CASE s = "n3-cidr" -> {Bare38}
      [] s = "n6-cidr" -> {Cidr37}
      [] s = "n6-gateway" -> {"5.6.8.3"}
      [] OTHER -> {}

(* The configurations of the model: the test configuration and every       *)
(* configuration that differs from it in one setting.                      *)
Configs ==
    {TestConfig} \cup
    {[TestConfig EXCEPT ![sv[1]] = sv[2]] : sv \in
        UNION {{<<t, w>> : w \in Alternatives(t)} : t \in Settings}}

config_n3_cidr == config["n3-cidr"]
config_n4_cidr == config["n4-cidr"]
config_n6_cidr == config["n6-cidr"]
config_n3_gateway == config["n3-gateway"]
config_n4_gateway == config["n4-gateway"]
config_n6_gateway == config["n6-gateway"]
config_n3_interface == config["n3-interface"]
config_n4_interface == config["n4-interface"]
config_n6_interface == config["n6-interface"]

-----------------------------------------------------------------------------
(* Pure functions.                                                         *)

(* Position of the first occurrence of sep in s, 0 when there is none.     *)
RECURSIVE Find(_, _, _)
Find(s, sep, i) ==
    IF i > Len(s) THEN 0
    ELSE IF s[i] = sep THEN i
    ELSE Find(s, sep, i + 1)

(* s.split(sep)[0]                                                         *)
SplitFirst(s, sep) ==
    LET i == Find(s, sep, 1)
    IN  IF i = 0 THEN s ELSE SubSeq(s, 1, i - 1)

(* json.dumps: an encoding of the value, distinct from the value.          *)
JsonDumps(x) == <<"json", x>>

(* template.render of templates/upfcfg.yaml.j2: the document of the unit   *)
(* test, with its three holes.                                             *)
Render(n3_ip_address, n4_ip_address) ==
    [version |-> "1.0.3",
     pfcp_addr |-> n4_ip_address,
     pfcp_nodeID |-> n4_ip_address,
     gtpu_forwarder |-> "gtp5g",
     gtpu_ifList_addr |-> n3_ip_address,
     gtpu_ifList_type |-> "N3",
     dnn_cidr |-> "10.1.0.0/17",
     dnn_natifname |-> "n6"]

(* Mutant: the CIDR settings rendered without the split.                  *)
ConfigFileContentUnsplit(c) == Render(c["n3-cidr"], c["n4-cidr"])

(* The content _write_config_file pushes.                                  *)
ConfigFileContent(c) ==
    Render(SplitFirst(c["n3-cidr"], "/"), SplitFirst(c["n4-cidr"], "/"))

(* NadSpec with the route of every network taken from the N3 gateway.      *)
NadSpecWithN3Gateway(k, c) ==
    [cniVersion |-> "0.3.1",
     plugins |-> <<
        [type |-> "macvlan",
         capabilities |-> "ips",
         master |-> c[k \o "-interface"],
         mode |-> "bridge",
         ipam_type |-> "static",
         routes |-> <<[dst |-> "0.0.0.0/0", gw |-> c["n3-gateway"]]>>],
        [type |-> "tuning", capabilities |-> "mac"] >>]

(* The CNI plugin chain of _create_nX_network_attachement_definition.      *)
NadSpec(k, c) ==
    [cniVersion |-> "0.3.1",
     plugins |-> <<
        [type |-> "macvlan",
         capabilities |-> "ips",
         master |-> c[k \o "-interface"],
         mode |-> "bridge",
         ipam_type |-> "static",
         routes |-> <<[dst |-> "0.0.0.0/0", gw |-> c[k \o "-gateway"]]>>],
        [type |-> "tuning", capabilities |-> "mac"] >>]

(* The descriptor list of _add_statefulset_pod_network_annotation.         *)
MultusEntry(k, c) ==
    [name |-> NadName(k),
     interface |-> k,
     ips |-> <<c[k \o "-cidr"]>>,
     gateway |-> <<c[k \o "-gateway"]>>]

(* Mutant: the descriptors in the order N3, N4, N6.                        *)
MultusAnnotationByNumber(c) ==
    <<MultusEntry("n3", c), MultusEntry("n4", c), MultusEntry("n6", c)>>

MultusAnnotation(c) ==
    <<MultusEntry("n3", c), MultusEntry("n6", c), MultusEntry("n4", c)>>

(* The five commands of _configure_networking_rules.  Adjacent string      *)
(* literals are one string: "table" "n6if" is the argument "tablen6if".    *)
RuleCommands(c) ==
    << <<"iptables-legacy", "-A", "FORWARD", "-j", "ACCEPT">>,
       <<"iptables-legacy", "-t", "nat", "-A", "POSTROUTING", "-s",
         "10.1.0.0/16", "-o", "n6", "-j", "MASQUERADE">>,
       <<"echo", "1200 n6if", ">>", "/etc/iproute2/rt_tables">>,
       <<"ip", "rule", "add", "from", "10.1.0.0/16", "table", "n6if">>,
       <<"ip", "route", "add", "default", "via", c["n6-gateway"], "dev",
         "n6", "table" \o "n6if">> >>

ProbeCommand == <<"ip", "rule", "list">>

(* The layer of _pebble_layer.                                             *)
PebbleLayer ==
    [summary |-> "free5gc-upf layer",
     description |-> "pebble config layer for free5gc-upf",
     services |-> [s \in {"free5gc-upf"} |->
        [override |-> "replace",
         startup |-> "enabled",
         command |-> "upf -c /free5gc/config/upfcfg.yaml"]]]

-----------------------------------------------------------------------------
(* Kubernetes and pebble, as far as the charm uses them.                   *)

NoNad == [exists |-> FALSE, config |-> <<>>]

NoObject == [has_annotations |-> FALSE, annotations |-> <<>>]

(* d[key] = value on a dict.                                               *)
Put(d, key, value) ==
    [x \in DOMAIN d \cup {key} |-> IF x = key THEN value ELSE d[x]]

(* client.patch(..., patch_type=PatchType.MERGE) of the pod-template       *)
(* annotations: a key of the patch is set, any other key is kept.          *)
MergePatch(current, obj) ==
    IF ~obj.has_annotations THEN current
    ELSE [has_annotations |-> TRUE,
          annotations |->
            [x \in (IF current.has_annotations
                    THEN DOMAIN current.annotations ELSE {})
                   \cup DOMAIN obj.annotations |->
                IF x \in DOMAIN obj.annotations
                THEN obj.annotations[x] ELSE current.annotations[x]]]

(* Position of the layer with this label, 0 when there is none.            *)
RECURSIVE LayerIndex(_, _, _)
LayerIndex(ls, label, i) ==
    IF i > Len(ls) THEN 0
    ELSE IF ls[i].label = label THEN i
    ELSE LayerIndex(ls, label, i + 1)

(* Mutant: the layer is appended also when its label exists.              *)
AddLayerAppend(ls, label, layer) ==
    Append(ls, [label |-> label, services |-> layer.services])

(* Container.add_layer(label, layer, combine=True): a layer with the same  *)
(* label is combined with the new one (a service with override "replace"   *)
(* replaces the old one), otherwise the layer is appended.                 *)
AddLayerCombine(ls, label, layer) ==
    LET i == LayerIndex(ls, label, 1)
    IN  IF i = 0
        THEN Append(ls, [label |-> label, services |-> layer.services])
        ELSE [ls EXCEPT ![i].services =
                [s \in DOMAIN @ \cup DOMAIN layer.services |->
                    IF s \in DOMAIN layer.services
                    THEN layer.services[s] ELSE @[s]]]

(* The plan: the services of all layers, later layers overriding.          *)
RECURSIVE PlanOf(_)
PlanOf(ls) ==
    IF ls = <<>> THEN <<>>
    ELSE LET rest == PlanOf(SubSeq(ls, 1, Len(ls) - 1))
             last == ls[Len(ls)].services
         IN  [s \in DOMAIN rest \cup DOMAIN last |->
                IF s \in DOMAIN last THEN last[s] ELSE rest[s]]

Plan == PlanOf(layers)

(* One external call and its outcome, as recorded in the handler's call    *)
(* list.                                                                   *)
Call(op, name, ns, arg, outcome) ==
    [op |-> op, name |-> name, ns |-> ns, arg |-> arg, outcome |-> outcome]

(* Outcomes the environment may choose for a call.  An API error other     *)
(* than the one the resource state forces is possible until the            *)
(* environment is stable.                                                  *)
Faults == IF stable THEN {} ELSE {"ApiError"}

NadGetOutcomes(k) ==
    (IF nads[k].exists THEN {"ok"} ELSE {"NotFound"}) \cup Faults

NadCreateOutcomes(k) ==
    IF nads[k].exists THEN {"AlreadyExists"} ELSE {"ok"} \cup Faults

NadDeleteOutcomes(k) ==
    IF nads[k].exists THEN {"ok"} \cup Faults ELSE {"NotFound"}

StsOutcomes == {"ok"} \cup Faults

PushOutcomes == {"ok"} \cup (IF stable THEN {} ELSE {"PathError"})

ExitCodes == {"zero"} \cup (IF stable THEN {} ELSE {"nonzero"})

-----------------------------------------------------------------------------
(* Event dispatch.                                                         *)

(* What exists when a handler is entered.                                  *)
Snapshot ==
    [nads |-> {k \in Networks : nads[k].exists},
     has_annotations |-> sts.has_annotations,
     annotation |-> sts.has_annotations /\ MULTUS_KEY \in DOMAIN sts.annotations,
     marker |-> marker,
     status |-> status,
     reachable |-> canConnect]

FirstPc(h) == IF h = "config_changed" THEN "can_connect" ELSE "delete_n3"

(* A handler is entered: framework.observe(...) binds the event to it.     *)
Enter(h) ==
    /\ handler' = h
    /\ pc' = FirstPc(h)
    /\ result' = "running"
    /\ calls' = <<>>
    /\ statefulset' = NoObject
    /\ pre' = Snapshot
    /\ ruleFailed' = FALSE

(* A deferred event is emitted again before the event of a new dispatch.   *)
Dispatch(h) ==
    /\ pc = "idle"
    /\ IF deferred
       THEN /\ deferred' = FALSE
            /\ pending' = h
            /\ Enter("config_changed")
       ELSE /\ h # "none"
            /\ pending' = "none"
            /\ Enter(h)
            /\ UNCHANGED deferred

(* The handler returns normally.                                           *)
Return ==
    /\ result' = "returned"
    /\ pc' = IF pending = "none" THEN "idle" ELSE "next"
    /\ UNCHANGED <<pending, handler>>

(* An exception leaves the handler: the dispatch ends there.               *)
Raise(exc) ==
    /\ result' = exc
    /\ pc' = "idle"
    /\ pending' = "none"
    /\ UNCHANGED handler

Goto(next) ==
    /\ pc' = next
    /\ UNCHANGED <<pending, handler, result>>

EmitConfigChanged(c) ==
    /\ config' = c
    /\ Dispatch("config_changed")
    /\ UNCHANGED <<canConnect, stable, nads, sts, marker, file, layers,
                   started, status>>

EmitRemove ==
    /\ Dispatch("remove")
    /\ UNCHANGED <<config, canConnect, stable, nads, sts, marker, file,
                   layers, started, status>>

(* A dispatch of an event the charm does not observe.                      *)
EmitOther ==
    /\ deferred
    /\ Dispatch("none")
    /\ UNCHANGED <<config, canConnect, stable, nads, sts, marker, file,
                   layers, started, status>>

NextHandler ==
    /\ pc = "next"
    /\ Enter(pending)
    /\ pending' = "none"
    /\ UNCHANGED <<config, canConnect, stable, nads, sts, marker, file,
                   layers, started, status, deferred>>

-----------------------------------------------------------------------------
(* _on_config_changed, one step for each external call.                    *)

CheckPc(k) == "check_" \o k
CreatePc(k) == "create_" \o k
DeletePc(k) == "delete_" \o k
RulePc(i) == <<"rule_1", "rule_2", "rule_3", "rule_4", "rule_5">>[i]

(* AfterNad with the networks taken in the order of the annotation entries *)
(* (N3, N6, N4) instead of the order of _on_config_changed.                *)
AfterNadInAnnotationOrder(k) ==
    CASE k = "n3" -> CheckPc("n6")
      [] k = "n6" -> CheckPc("n4")
      [] k = "n4" -> "annotation_check"

(* The step that follows the check and create of network k.                *)
AfterNad(k) ==
    CASE k = "n3" -> CheckPc("n4")
      [] k = "n4" -> CheckPc("n6")
      [] k = "n6" -> "annotation_check"

(* The step that follows the delete of network k; "" ends the handler.     *)
AfterDelete(k) ==
    CASE k = "n3" -> DeletePc("n4")
      [] k = "n4" -> DeletePc("n6")
      [] k = "n6" -> ""

(* Mutant: the guard without its return.                                   *)
CanConnectFallsThrough ==
    /\ pc = "can_connect"
    /\ IF ~canConnect
       THEN status' = "Waiting" /\ deferred' = TRUE
       ELSE UNCHANGED <<status, deferred>>
    /\ Goto("write_config")
    /\ UNCHANGED <<config, canConnect, stable, nads, sts, marker, file,
                   layers, started, statefulset, calls, pre,
                   ruleFailed>>

(* if not self._container.can_connect(): WaitingStatus, defer, return      *)
CanConnect ==
    /\ pc = "can_connect"
    /\ IF ~canConnect
       THEN /\ status' = "Waiting"
            /\ deferred' = TRUE
            /\ Return
       ELSE /\ Goto("write_config")
            /\ UNCHANGED <<status, deferred>>
    /\ UNCHANGED <<config, canConnect, stable, nads, sts, marker, file,
                   layers, started, statefulset, calls, pre,
                   ruleFailed>>

(* WriteConfigFile preceded by a MaintenanceStatus, as a handler that      *)
(* announces its work would set it.                                        *)
WriteConfigFileSetsMaintenance ==
    /\ pc = "write_config"
    /\ status' = "Maintenance"
    /\ LET content == ConfigFileContent(config)
       IN  \E o \in PushOutcomes :
             /\ calls' = Append(calls,
                           Call("push", CONFIG_FILE_PATH, "", content, o))
             /\ IF o = "ok"
                THEN file' = content /\ Goto(CheckPc("n3"))
                ELSE Raise(o) /\ UNCHANGED file
    /\ UNCHANGED <<config, canConnect, stable, nads, sts, marker, layers,
                   started, deferred, statefulset, pre,
                   ruleFailed>>

(* _write_config_file                                                      *)
WriteConfigFile ==
    /\ pc = "write_config"
    /\ LET content == ConfigFileContent(config)
       IN  \E o \in PushOutcomes :
             /\ calls' = Append(calls,
                           Call("push", CONFIG_FILE_PATH, "", content, o))
             /\ IF o = "ok"
                THEN file' = content /\ Goto(CheckPc("n3"))
                ELSE Raise(o) /\ UNCHANGED file
    /\ UNCHANGED <<config, canConnect, stable, nads, sts, marker, layers,
                   started, status, deferred, statefulset, pre,
                   ruleFailed>>

(* Mutant: the existence check answers True whatever the get returns.      *)
NetworkAttachmentDefinitionCreatedAlways(o) == TRUE

(* The existence check with only a NotFound answer read as "not created";  *)
(* any other failure of the get counts as "created".                       *)
NetworkAttachmentDefinitionCreatedUnlessNotFound(o) == o # "NotFound"

(* The answer of _network_attachment_definition_created for the outcome    *)
(* of client.get: True when the get returns, False on ApiError, whether    *)
(* its reason is NotFound or not.                                          *)
NetworkAttachmentDefinitionCreated(o) == o = "ok"

(* if not self._nX_network_attachment_definition_created                   *)
NadCheck(k) ==
    /\ pc = CheckPc(k)
    /\ \E o \in NadGetOutcomes(k) :
         /\ calls' = Append(calls,
                       Call("nad_get", NadName(k), model_name, "", o))
         /\ IF NetworkAttachmentDefinitionCreated(o)
            THEN Goto(AfterNad(k))
            ELSE Goto(CreatePc(k))
    /\ UNCHANGED <<config, canConnect, stable, nads, sts, marker, file,
                   layers, started, status, deferred, statefulset, pre,
                   ruleFailed>>

(* NadCreate with the object applied rather than created: an existing      *)
(* object of that name is replaced.                                        *)
NadCreateReplaces(k) ==
    /\ pc = CreatePc(k)
    /\ LET body == JsonDumps(NadSpec(k, config))
       IN  \E o \in {"ok"} \cup Faults :
             /\ calls' = Append(calls,
                           Call("nad_create", NadName(k), model_name, body, o))
             /\ IF o = "ok"
                THEN /\ nads' = [nads EXCEPT
                                   ![k] = [exists |-> TRUE, config |-> body]]
                     /\ Goto(AfterNad(k))
                ELSE Raise("ApiError") /\ UNCHANGED nads
    /\ UNCHANGED <<config, canConnect, stable, sts, marker, file, layers,
                   started, status, deferred, statefulset, pre,
                   ruleFailed>>

(* NadCreate with the ApiError of client.create caught and logged: the     *)
(* handler goes on after a create that failed.                             *)
NadCreateIgnoresError(k) ==
    /\ pc = CreatePc(k)
    /\ LET body == JsonDumps(NadSpec(k, config))
       IN  \E o \in NadCreateOutcomes(k) :
             /\ calls' = Append(calls,
                           Call("nad_create", NadName(k), model_name, body, o))
             /\ nads' = IF o = "ok"
                        THEN [nads EXCEPT
                                ![k] = [exists |-> TRUE, config |-> body]]
                        ELSE nads
             /\ Goto(AfterNad(k))
    /\ UNCHANGED <<config, canConnect, stable, sts, marker, file, layers,
                   started, status, deferred, statefulset, pre,
                   ruleFailed>>

(* _create_network_attachement_definition                                  *)
NadCreate(k) ==
    /\ pc = CreatePc(k)
    /\ LET body == JsonDumps(NadSpec(k, config))
       IN  \E o \in NadCreateOutcomes(k) :
             /\ calls' = Append(calls,
                           Call("nad_create", NadName(k), model_name, body, o))
             /\ IF o = "ok"
                THEN /\ nads' = [nads EXCEPT
                                   ![k] = [exists |-> TRUE, config |-> body]]
                     /\ Goto(AfterNad(k))
                ELSE Raise("ApiError") /\ UNCHANGED nads
    /\ UNCHANGED <<config, canConnect, stable, sts, marker, file, layers,
                   started, status, deferred, statefulset, pre,
                   ruleFailed>>

(* AnnotationCheck with the answer of the key test ignored: the annotation *)
(* is written in every invocation.                                         *)
AnnotationCheckAlwaysAdds ==
    /\ pc = "annotation_check"
    /\ \E o \in StsOutcomes :
         /\ calls' = Append(calls,
                       Call("sts_get", app_name, model_name, "", o))
         /\ IF o # "ok" THEN Raise("ApiError")
            ELSE IF ~sts.has_annotations THEN Raise("TypeError")
            ELSE Goto("annotation_get")
    /\ UNCHANGED <<config, canConnect, stable, nads, sts, marker, file,
                   layers, started, status, deferred, statefulset, pre,
                   ruleFailed>>

(* _annotation_added_to_statefulset: `key in annotations` raises TypeError *)
(* on a pod template that has no annotations (annotations is None).        *)
AnnotationCheck ==
    /\ pc = "annotation_check"
    /\ \E o \in StsOutcomes :
         /\ calls' = Append(calls,
                       Call("sts_get", app_name, model_name, "", o))
         /\ IF o # "ok" THEN Raise("ApiError")
            ELSE IF ~sts.has_annotations THEN Raise("TypeError")
            ELSE IF MULTUS_KEY \in DOMAIN sts.annotations THEN Goto("probe")
            ELSE Goto("annotation_get")
    /\ UNCHANGED <<config, canConnect, stable, nads, sts, marker, file,
                   layers, started, status, deferred, statefulset, pre,
                   ruleFailed>>

(* _add_statefulset_pod_network_annotation, up to the assignment to        *)
(* current_annotation[...]                                                 *)
AddAnnotationGet ==
    /\ pc = "annotation_get"
    /\ \E o \in StsOutcomes :
         /\ calls' = Append(calls,
                       Call("sts_get", app_name, model_name, "", o))
         /\ IF o # "ok" THEN Raise("ApiError") /\ UNCHANGED statefulset
            ELSE IF ~sts.has_annotations
            THEN Raise("TypeError") /\ UNCHANGED statefulset
            ELSE /\ statefulset' =
                      [sts EXCEPT !.annotations =
                          Put(@, MULTUS_KEY,
                              JsonDumps(MultusAnnotation(config)))]
                 /\ Goto("annotation_patch")
    /\ UNCHANGED <<config, canConnect, stable, nads, sts, marker, file,
                   layers, started, status, deferred, pre,
                   ruleFailed>>

(* _add_statefulset_pod_network_annotation: client.patch                   *)
AddAnnotationPatch ==
    /\ pc = "annotation_patch"
    /\ \E o \in StsOutcomes :
         /\ calls' = Append(calls,
                       Call("sts_patch", app_name, model_name, statefulset, o))
         /\ IF o = "ok"
            THEN sts' = MergePatch(sts, statefulset) /\ Goto("probe")
            ELSE Raise("ApiError") /\ UNCHANGED sts
    /\ UNCHANGED <<config, canConnect, stable, nads, marker, file, layers,
                   started, status, deferred, statefulset, pre,
                   ruleFailed>>

(* What `ip rule list` prints: the policy rule, when it exists, among the  *)
(* rules every network namespace has.                                      *)
RuleList ==
    <<"from all lookup local">> \o
    (IF marker THEN <<RULE_MARKER>> ELSE <<>>) \o
    <<"from all lookup main", "from all lookup default">>

(* `needle in text`, the text being a sequence of lines.                   *)
Contains(text, needle) == \E i \in 1..Len(text) : text[i] = needle

(* Mutant: the answer without the test of the output.                     *)
NetworkingRulesAreCreatedExitOnly(exit, stdout) == exit = "zero"

(* The answer with a failed probe read as "rules present".                 *)
NetworkingRulesAreCreatedOnError(exit, stdout) ==
    exit = "nonzero" \/ Contains(stdout, RULE_MARKER)

(* The answer of _networking_rules_are_created: False when wait_output     *)
(* raises ExecError, else whether the output contains the marker.          *)
NetworkingRulesAreCreated(exit, stdout) ==
    exit = "zero" /\ Contains(stdout, RULE_MARKER)

(* if not self._networking_rules_are_created                               *)
Probe ==
    /\ pc = "probe"
    /\ \E exit \in ExitCodes :
         LET stdout == IF exit = "zero" THEN RuleList ELSE <<>>
         IN  /\ calls' = Append(calls,
                           Call("exec", container_name, "", ProbeCommand,
                                [exit |-> exit, stdout |-> stdout]))
             /\ IF NetworkingRulesAreCreated(exit, stdout)
                THEN Goto("add_layer")
                ELSE Goto(RulePc(1))
    /\ UNCHANGED <<config, canConnect, stable, nads, sts, marker, file,
                   layers, started, status, deferred, statefulset, pre,
                   ruleFailed>>

(* ConfigureRule with the process waited for: a non-zero exit raises       *)
(* ExecError out of the handler.                                           *)
ConfigureRuleAwaited(i) ==
    /\ pc = RulePc(i)
    /\ \E exit \in ExitCodes :
         /\ calls' = Append(calls,
                       Call("exec", container_name, "", RuleCommands(config)[i],
                            [exit |-> exit, stdout |-> <<>>]))
         /\ marker' = (marker \/ (RuleCommands(config)[i][2] = "rule"
                                  /\ exit = "zero"))
         /\ ruleFailed' = (ruleFailed \/ exit = "nonzero")
         /\ IF exit = "nonzero" THEN Raise("ExecError")
            ELSE Goto(IF i < Len(RuleCommands(config))
                      THEN RulePc(i + 1) ELSE "add_layer")
    /\ UNCHANGED <<config, canConnect, stable, nads, sts, file, layers,
                   started, status, deferred, statefulset, pre>>

(* _configure_networking_rules: the i-th exec.  The process is never       *)
(* waited for, so its exit code is not seen.  The policy rule exists in    *)
(* the container once `ip rule add` has exited with zero.                  *)
ConfigureRule(i) ==
    /\ pc = RulePc(i)
    /\ calls' = Append(calls,
                  Call("exec", container_name, "", RuleCommands(config)[i],
                       [exit |-> "not awaited", stdout |-> <<>>]))
    /\ \E exit \in ExitCodes :
         /\ marker' = (marker \/ (RuleCommands(config)[i][2] = "rule"
                                  /\ exit = "zero"))
         /\ ruleFailed' = (ruleFailed \/ exit = "nonzero")
    /\ Goto(IF i < Len(RuleCommands(config)) THEN RulePc(i + 1) ELSE "add_layer")
    /\ UNCHANGED <<config, canConnect, stable, nads, sts, file, layers,
                   started, status, deferred, statefulset, pre>>

(* self._container.add_layer("free5gc-upf", self._pebble_layer, combine=True) *)
AddLayer ==
    /\ pc = "add_layer"
    /\ calls' = Append(calls,
                  Call("add_layer", "free5gc-upf", "", PebbleLayer, "ok"))
    /\ layers' = AddLayerCombine(layers, "free5gc-upf", PebbleLayer)
    /\ Goto("replan")
    /\ UNCHANGED <<config, canConnect, stable, nads, sts, marker, file,
                   started, status, deferred, statefulset, pre,
                   ruleFailed>>

(* self._container.replan()                                                *)
Replan ==
    /\ pc = "replan"
    /\ calls' = Append(calls, Call("replan", container_name, "", "", "ok"))
    /\ started' = started \cup {s \in DOMAIN Plan : Plan[s].startup = "enabled"}
    /\ Goto("set_active")
    /\ UNCHANGED <<config, canConnect, stable, nads, sts, marker, file,
                   layers, status, deferred, statefulset, pre,
                   ruleFailed>>

(* self.unit.status = ActiveStatus()                                       *)
SetActive ==
    /\ pc = "set_active"
    /\ status' = "Active"
    /\ Return
    /\ UNCHANGED <<config, canConnect, stable, nads, sts, marker, file,
                   layers, started, deferred, statefulset, calls, pre,
                   ruleFailed>>

-----------------------------------------------------------------------------
(* _on_remove                                                              *)

(* _delete_network_attachement_definition: an ApiError of client.delete,   *)
(* NotFound included, is not caught.                                       *)
NadDelete(k) ==
    /\ pc = DeletePc(k)
    /\ \E o \in NadDeleteOutcomes(k) :
         /\ calls' = Append(calls,
                       Call("nad_delete", NadName(k), model_name, "", o))
         /\ IF o = "ok"
            THEN /\ nads' = [nads EXCEPT ![k] = NoNad]
                 /\ IF AfterDelete(k) = "" THEN Return ELSE Goto(AfterDelete(k))
            ELSE Raise("ApiError") /\ UNCHANGED nads
    /\ UNCHANGED <<config, canConnect, stable, sts, marker, file, layers,
                   started, status, deferred, statefulset, pre,
                   ruleFailed>>

-----------------------------------------------------------------------------
(* The environment between two dispatches.                                 *)

ContainerUp ==
    /\ pc = "idle"
    /\ ~canConnect
    /\ canConnect' = TRUE
    /\ UNCHANGED <<config, stable, nads, sts, marker, file, layers, started,
                   status, deferred, pending, handler, pc, result,
                   statefulset, calls, pre,
                   ruleFailed>>

ContainerDown ==
    /\ pc = "idle"
    /\ canConnect
    /\ ~stable
    /\ canConnect' = FALSE
    /\ UNCHANGED <<config, stable, nads, sts, marker, file, layers, started,
                   status, deferred, pending, handler, pc, result,
                   statefulset, calls, pre,
                   ruleFailed>>

(* From here on the container stays reachable and no call fails.           *)
Stabilise ==
    /\ pc = "idle"
    /\ ~stable
    /\ stable' = TRUE
    /\ canConnect' = TRUE
    /\ UNCHANGED <<config, nads, sts, marker, file, layers, started, status,
                   deferred, pending, handler, pc, result, statefulset,
                   calls, pre,
                   ruleFailed>>

-----------------------------------------------------------------------------

(* The pod template as the deployment finds it: without annotations, or    *)
(* with annotations other than the Multus one.                             *)
OTHER_KEY == "juju.is/version"

InitialTemplates ==
    {NoObject,
     [has_annotations |-> TRUE,
      annotations |-> [x \in {OTHER_KEY} |-> "3.1"]]}

Init ==
    /\ config \in Configs
    /\ canConnect \in BOOLEAN
    /\ stable = FALSE
    /\ nads = [k \in Networks |-> NoNad]
    /\ sts \in InitialTemplates
    /\ marker = FALSE
    /\ file = <<>>
    /\ layers = <<>>
    /\ started = {}
    /\ status = "Unknown"
    /\ deferred = FALSE
    /\ pending = "none"
    /\ handler = "none"
    /\ pc = "idle"
    /\ result = "none"
    /\ statefulset = NoObject
    /\ calls = <<>>
    /\ pre = Snapshot
    /\ ruleFailed = FALSE

Next ==
    \/ \E c \in Configs : EmitConfigChanged(c)
    \/ EmitRemove
    \/ EmitOther
    \/ NextHandler
    \/ CanConnect
    \/ WriteConfigFile
    \/ \E k \in Networks : NadCheck(k)
    \/ \E k \in Networks : NadCreate(k)
    \/ AnnotationCheck
    \/ AddAnnotationGet
    \/ AddAnnotationPatch
    \/ Probe
    \/ \E i \in 1..5 : ConfigureRule(i)
    \/ AddLayer
    \/ Replan
    \/ SetActive
    \/ \E k \in Networks : NadDelete(k)
    \/ ContainerUp
    \/ ContainerDown
    \/ Stabilise

Spec == Init /\ [][Next]_vars

(* A step of the running handler.  Every call of a handler is a blocking   *)
(* call that returns, so a handler that has been entered runs to its end.  *)
HandlerStep ==
    \/ NextHandler
    \/ CanConnect
    \/ WriteConfigFile
    \/ \E k \in Networks : NadCheck(k)
    \/ \E k \in Networks : NadCreate(k)
    \/ AnnotationCheck
    \/ AddAnnotationGet
    \/ AddAnnotationPatch
    \/ Probe
    \/ \E i \in 1..5 : ConfigureRule(i)
    \/ AddLayer
    \/ Replan
    \/ SetActive
    \/ \E k \in Networks : NadDelete(k)

(* The runtime dispatches again while a deferred event is stored, and the  *)
(* dispatch emits the deferred event first.                                *)
FairSpec == Spec /\ WF_vars(HandlerStep) /\ WF_vars(EmitOther)

-----------------------------------------------------------------------------
(* Vocabulary of the properties.                                           *)

(* The handler h has ended, and no later handler has been entered.         *)
Finished(h) == handler = h /\ result \notin {"none", "running"}

Returned(h) == handler = h /\ result = "returned"

CallsOf(op) == SelectSeq(calls, LAMBDA c : c.op = op)

NamesOf(cs) == [i \in 1..Len(cs) |-> cs[i].name]

Count(op, name) ==
    Cardinality({i \in 1..Len(calls) :
                    calls[i].op = op /\ calls[i].name = name})

(* No call of the handler has failed: a get of a resource that does not    *)
(* exist is answered NotFound, every other call is answered without error. *)
CallSucceeded(c) ==
    IF c.op = "exec" THEN c.outcome.exit # "nonzero"
    ELSE IF c.op = "nad_get" THEN c.outcome \in {"ok", "NotFound"}
    ELSE c.outcome = "ok"

AllCallsSucceeded == \A i \in 1..Len(calls) : CallSucceeded(calls[i])

(* The value of the Multus annotation in a patch call.                     *)
PatchedValue(c) == c.arg.annotations[MULTUS_KEY]

-----------------------------------------------------------------------------
-----------------------------------------------------------------------------
(* C2: when the three NADs exist, the annotation key is present and the    *)
(* marker is in the probe output, a config-changed invocation issues no    *)
(* NAD create, no StatefulSet patch and no rule-creation exec; its only    *)
(* writes are the push and add_layer/replan, and the external artifacts    *)
(* are the same after it as before.                                        *)
C2_Idempotent ==
    ( /\ handler = "config_changed"
      /\ pre.nads = Networks
      /\ pre.annotation
      /\ pre.marker
      /\ \A i \in 1..Len(calls) :
            calls[i].op = "exec" => calls[i].outcome.exit # "nonzero" )
    => /\ CallsOf("nad_create") = <<>>
       /\ CallsOf("sts_patch") = <<>>
       /\ \A i \in 1..Len(calls) :
            /\ calls[i].op \in
                 {"push", "nad_get", "sts_get", "exec", "add_layer", "replan"}
            /\ calls[i].op = "exec" => calls[i].arg = <<"ip", "rule", "list">>
       /\ {k \in Networks : nads[k].exists} = Networks
       /\ MULTUS_KEY \in DOMAIN sts.annotations
       /\ marker

-----------------------------------------------------------------------------
(* C3: when the container is not reachable, config-changed issues no       *)
(* external call at all, sets the unit status to Waiting, defers the event *)
(* and returns without an exception.                                       *)
C3_UnreachableDefers ==
    (Finished("config_changed") /\ ~pre.reachable)
    => /\ calls = <<>>
       /\ status = "Waiting"
       /\ deferred
       /\ result = "returned"

(* C3 witness: an invocation with the container unreachable has ended.     *)
C3_Witness ==
    /\ Finished("config_changed")
    /\ ~pre.reachable
    /\ pre.status # "Waiting"
    /\ status = "Waiting"
    /\ deferred

-----------------------------------------------------------------------------
(* C4: every invocation of remove issues exactly three NAD delete calls,   *)
(* for the names N3, N4, N6 in this order, in the model's namespace,       *)
(* whatever the prior state is.                                            *)
C4_RemoveIssuesThreeDeletes ==
    Finished("remove")
    => /\ NamesOf(CallsOf("nad_delete")) =
            <<"n3network-free5gc-v1-free5gc-upf",
              "n4network-free5gc-v1-free5gc-upf",
              "n6network-free5gc-v1-free5gc-upf">>
       /\ Len(calls) = 3
       /\ \A i \in 1..Len(calls) : calls[i].ns = model_name

-----------------------------------------------------------------------------
(* C5: a remove in which every delete is answered with success or with     *)
(* not-found goes on to the remaining deletes and ends normally with no    *)
(* NAD present.                                                            *)
C5_RemoveToleratesNotFound ==
    ( /\ Finished("remove")
      /\ \A i \in 1..Len(calls) : calls[i].outcome \in {"ok", "NotFound"} )
    => /\ result = "returned"
       /\ Len(CallsOf("nad_delete")) = 3
       /\ \A k \in Networks : ~nads[k].exists

-----------------------------------------------------------------------------
(* C6: no exception leaves config-changed or remove, whatever the outcomes *)
(* of the external calls are, and an invocation is deferred only when the  *)
(* container is unreachable.                                               *)
C6_NoExceptionEscapes ==
    /\ result \in {"none", "running", "returned"}
    /\ (Finished("config_changed") /\ deferred) => ~pre.reachable

-----------------------------------------------------------------------------
(* C7: in a config-changed invocation the first exec is the probe          *)
(* `ip rule list`; if its output contains 'from 10.1.0.0/16 table n6if'   *)
(* no other command is executed; otherwise exactly five commands follow,   *)
(* each once, in this order: append FORWARD ACCEPT, append NAT POSTROUTING *)
(* MASQUERADE for 10.1.0.0/16 out of n6, append the n6if routing-table     *)
(* definition, add the policy rule for 10.1.0.0/16, add the default route  *)
(* via the N6 gateway on device n6.                                        *)
Execs == CallsOf("exec")

C7_IsRuleCommand(i, argv) ==
    CASE i = 1 -> argv = <<"iptables-legacy", "-A", "FORWARD", "-j", "ACCEPT">>
      [] i = 2 -> argv = <<"iptables-legacy", "-t", "nat", "-A", "POSTROUTING",
                           "-s", "10.1.0.0/16", "-o", "n6", "-j", "MASQUERADE">>
      [] i = 3 -> argv = <<"echo", "1200 n6if", ">>", "/etc/iproute2/rt_tables">>
      [] i = 4 -> argv = <<"ip", "rule", "add", "from", "10.1.0.0/16",
                           "table", "n6if">>
      [] i = 5 -> /\ Len(argv) >= 8
                  /\ SubSeq(argv, 1, 8) =
                       <<"ip", "route", "add", "default", "via",
                         config["n6-gateway"], "dev", "n6">>
      [] OTHER -> FALSE

C7_PastRuleStep ==
    pc \in {"add_layer", "replan", "set_active"} \/ Finished("config_changed")

C7_RoutingRuleGuard ==
    (handler = "config_changed" /\ Len(Execs) >= 1)
    => /\ Execs[1].arg = <<"ip", "rule", "list">>
       /\ IF /\ Execs[1].outcome.exit = "zero"
             /\ Contains(Execs[1].outcome.stdout, "from 10.1.0.0/16 table n6if")
          THEN Len(Execs) = 1
          ELSE /\ \A i \in 2..Len(Execs) : C7_IsRuleCommand(i - 1, Execs[i].arg)
               /\ C7_PastRuleStep => Len(Execs) = 6

(* C7 witness: the probe did not show the marker and the invocation has    *)
(* ended after the five commands.                                          *)
C7_Witness ==
    /\ Returned("config_changed")
    /\ Len(Execs) = 6
    /\ Execs[1].outcome.exit = "zero"
    /\ ~Contains(Execs[1].outcome.stdout, "from 10.1.0.0/16 table n6if")

-----------------------------------------------------------------------------
(* C8: the content pushed to /free5gc/config/upfcfg.yaml is a function of  *)
(* the n3-cidr and n4-cidr settings only: the N3 listen address is the     *)
(* n3-cidr without its '/prefix', the PFCP address and the nodeID are the  *)
(* n4-cidr without its '/prefix', and configurations that agree on these   *)
(* two settings give the same content.                                     *)
C8_Stripped(addr, cidr) ==
    /\ \A i \in 1..Len(addr) : addr[i] # "/"
    /\ \/ addr = cidr
       \/ \E n \in 1..Len(cidr) : cidr[n] = "/" /\ addr = SubSeq(cidr, 1, n - 1)

C8_ConfigFileContent ==
    handler = "config_changed"
    => \A i \in 1..Len(calls) :
         calls[i].op = "push"
         => /\ calls[i].name = "/free5gc/config/upfcfg.yaml"
            /\ C8_Stripped(calls[i].arg.gtpu_ifList_addr, config["n3-cidr"])
            /\ C8_Stripped(calls[i].arg.pfcp_addr, config["n4-cidr"])
            /\ calls[i].arg.pfcp_nodeID = calls[i].arg.pfcp_addr
            /\ \A c \in Configs :
                 ( /\ c["n3-cidr"] = config["n3-cidr"]
                   /\ c["n4-cidr"] = config["n4-cidr"] )
                 => ConfigFileContent(c) = calls[i].arg
            /\ \A t \in Settings \ {"n3-cidr", "n4-cidr"} :
                 \A v \in {Cidr37, Bare38} :
                    ConfigFileContent([config EXCEPT ![t] = v]) = calls[i].arg
            /\ calls[i].outcome = "ok" => file = calls[i].arg

(* C8 witness: under a configuration that differs from the test            *)
(* configuration in n6-cidr only, the content of the test configuration    *)
(* has been pushed.                                                        *)
C8_Witness ==
    /\ handler = "config_changed"
    /\ config = [TestConfig EXCEPT !["n6-cidr"] = Cidr37]
    /\ Len(CallsOf("push")) = 1
    /\ CallsOf("push")[1].outcome = "ok"
    /\ file = ConfigFileContent(TestConfig)
    /\ file.gtpu_ifList_addr = <<"1", ".", "2", ".", "3", ".", "4">>
    /\ file.pfcp_addr = <<"1", ".", "2", ".", "3", ".", "5">>

-----------------------------------------------------------------------------
(* C9: after every config-changed invocation that reaches its end, the     *)
(* pebble plan holds exactly one service, free5gc-upf, with override       *)
(* replace, startup enabled and command                                    *)
(* 'upf -c /free5gc/config/upfcfg.yaml'; the layer is combined, never      *)
(* duplicated, however often the invocation is repeated.                   *)
C9_SingleServicePlan ==
    (Returned("config_changed") /\ pre.reachable)
    => /\ DOMAIN Plan = {"free5gc-upf"}
       /\ Plan["free5gc-upf"] =
            [override |-> "replace",
             startup |-> "enabled",
             command |-> "upf -c /free5gc/config/upfcfg.yaml"]
       /\ Len(layers) = 1
       /\ started = {"free5gc-upf"}

(* C9 witness: an invocation has reached its end after an earlier one had  *)
(* set the status to Active.                                               *)
C9_Witness ==
    /\ Returned("config_changed")
    /\ pre.reachable
    /\ pre.status = "Active"
    /\ Len(layers) = 1
    /\ DOMAIN Plan = {"free5gc-upf"}

-----------------------------------------------------------------------------
(* C10: if a config-changed event is deferred, the runtime delivers it     *)
(* again, and from some point on the container stays reachable and the     *)
(* external calls succeed, then eventually the three NADs exist, the       *)
(* StatefulSet annotation is present, the routing rule is configured and   *)
(* the unit status is Active.  The pod template is one that carries        *)
(* annotations, the only kind on which the annotation check can answer.    *)
Converged ==
    /\ \A k \in Networks : nads[k].exists
    /\ MULTUS_KEY \in DOMAIN sts.annotations
    /\ marker
    /\ status = "Active"

-----------------------------------------------------------------------------
(* C11: a network attachment definition that exists is never altered by    *)
(* config-changed: every step leaves an existing definition exactly as it  *)
(* was created, also when the interface or gateway setting has changed     *)
(* since, and the only step that makes one disappear is a step of remove.  *)
C11_NadImmutable ==
    [][\A k \in Networks :
         nads[k].exists =>
           \/ nads'[k] = nads[k]
           \/ handler = "remove" /\ ~nads'[k].exists]_vars

(* config-changed has run to its end over a definition that was created    *)
(* from a gateway setting that has changed since.                          *)
C11_Witness ==
    /\ Returned("config_changed")
    /\ pre.reachable
    /\ "n6" \in pre.nads
    /\ nads["n6"].exists
    /\ nads["n6"].config # JsonDumps(NadSpec("n6", config))

-----------------------------------------------------------------------------
(* C12: once the pod-template annotations carry the key                    *)
(* k8s.v1.cni.cncf.io/networks no step changes the StatefulSet, so the key *)
(* and its value stay as first written; a config-changed entered with the  *)
(* key present issues no StatefulSet patch, also when a CIDR or gateway    *)
(* setting has changed since, and remove issues no StatefulSet call.       *)
C12_AnnotationWrittenOnce ==
    /\ [](/\ (handler = "config_changed" /\ pre.annotation)
              => CallsOf("sts_patch") = <<>>
          /\ handler = "remove"
              => \A i \in 1..Len(calls) :
                   calls[i].op \notin {"sts_get", "sts_patch"})
    /\ [][(sts.has_annotations /\ MULTUS_KEY \in DOMAIN sts.annotations)
            => sts' = sts]_vars

(* config-changed has run to its end over an annotation whose value was    *)
(* written from settings that have changed since.                          *)
C12_Witness ==
    /\ Returned("config_changed")
    /\ pre.reachable
    /\ pre.annotation
    /\ sts.annotations[MULTUS_KEY] # JsonDumps(MultusAnnotation(config))

-----------------------------------------------------------------------------
(* The position of a call in the order of _on_config_changed.              *)
C13_Stage(c) ==
    CASE c.op = "push" -> 1
      [] c.op \in {"nad_get", "nad_create"} ->
           (CASE c.name = N3_NETWORK_ATTACHMENT_DEFINITION_NAME -> 2
              [] c.name = N4_NETWORK_ATTACHMENT_DEFINITION_NAME -> 3
              [] c.name = N6_NETWORK_ATTACHMENT_DEFINITION_NAME -> 4)
      [] c.op \in {"sts_get", "sts_patch"} -> 5
      [] c.op = "exec" -> 6
      [] c.op = "add_layer" -> 7
      [] c.op = "replan" -> 8

(* C13: within one config-changed invocation past the container check the  *)
(* calls come in a fixed order: the config-file push, the N3 check (and    *)
(* create), the N4 check (and create), the N6 check (and create), the      *)
(* annotation check (and patch), the routing probe (and rule commands),    *)
(* add_layer, replan; the status is left alone while the invocation runs   *)
(* and is Active, set after replan, when it has returned.                  *)
C13_FixedOrder ==
    (handler = "config_changed" /\ pre.reachable)
    => /\ \A i, j \in 1..Len(calls) :
            i < j =>
              /\ C13_Stage(calls[i]) <= C13_Stage(calls[j])
              /\ C13_Stage(calls[i]) = C13_Stage(calls[j])
                   => /\ calls[j].op # "nad_get"
                      /\ calls[i].op \notin {"nad_create", "sts_patch"}
       /\ Len(Execs) >= 1 => Execs[1].arg = ProbeCommand
       /\ result = "running" => status = pre.status
       /\ result = "returned"
            => /\ {C13_Stage(calls[i]) : i \in 1..Len(calls)} = 1..8
               /\ calls[Len(calls)].op = "replan"
               /\ status = "Active"

(* An invocation that took every conditional step: three creates, the      *)
(* patch and the five rule commands.                                       *)
C13_Witness ==
    /\ Returned("config_changed")
    /\ Len(CallsOf("nad_create")) = 3
    /\ Len(CallsOf("sts_patch")) = 1
    /\ Len(Execs) = 6

-----------------------------------------------------------------------------
(* C14: a get of a network attachment definition that fails with an API    *)
(* error other than NotFound is treated like NotFound: the check answers   *)
(* "not created" without raising, and the same config-changed invocation,  *)
(* without deferring, goes on to a create of that definition, also when    *)
(* the definition exists.                                                  *)
C14_GetErrorReadAsNotFound ==
    handler = "config_changed"
    => \A i \in 1..Len(calls) :
         (calls[i].op = "nad_get" /\ calls[i].outcome = "ApiError")
         => /\ ~deferred
            /\ IF i = Len(calls)
               THEN /\ result = "running"
                    /\ \E k \in Networks :
                         NadName(k) = calls[i].name /\ pc = CreatePc(k)
               ELSE /\ calls[i + 1].op = "nad_create"
                    /\ calls[i + 1].name = calls[i].name

(* The get of a definition that existed at entry failed with another API   *)
(* error and the create of that definition followed.                       *)
C14_Witness ==
    /\ handler = "config_changed"
    /\ \E i \in 1..Len(calls) :
         /\ i < Len(calls)
         /\ calls[i].op = "nad_get"
         /\ calls[i].outcome = "ApiError"
         /\ calls[i + 1].op = "nad_create"
         /\ \E k \in pre.nads : NadName(k) = calls[i].name

-----------------------------------------------------------------------------
(* C15: when the `ip rule list` probe exits non-zero, or its output lacks  *)
(* the marker, the check answers "not present" without raising and the     *)
(* invocation executes the five rule commands, whatever earlier            *)
(* invocations executed; a policy rule that was in place at entry is still *)
(* in place, nothing being rolled back.                                    *)
C15_FailedProbeRunsCommands ==
    (/\ handler = "config_changed"
     /\ Len(Execs) >= 1
     /\ \/ Execs[1].outcome.exit = "nonzero"
        \/ ~Contains(Execs[1].outcome.stdout, RULE_MARKER))
    => /\ result \in {"running", "returned"}
       /\ pc \notin {"probe", "idle", "next"}
            => \/ Len(Execs) <= 5 /\ pc = RulePc(Len(Execs))
               \/ Len(Execs) = 6 /\ C7_PastRuleStep
       /\ C7_PastRuleStep => Len(Execs) = 6
       /\ pre.marker => marker

(* The policy rule was added by an earlier invocation, the probe of this   *)
(* one failed, and the five commands were executed again.                  *)
C15_Witness ==
    /\ Returned("config_changed")
    /\ pre.marker
    /\ Len(Execs) = 6
    /\ Execs[1].outcome.exit = "nonzero"

-----------------------------------------------------------------------------
(* Every assignment of the nine settings.                                  *)

(* A second value of each setting, no two settings sharing it.             *)
SecondValue(s) ==
    CASE s = "n3-cidr" -> Bare38
      [] s = "n3-gateway" -> "5.6.8.1"
      [] s = "n3-interface" -> "ens3"
      [] s = "n4-cidr" -> Cidr37
      [] s = "n4-gateway" -> "5.6.8.2"
      [] s = "n4-interface" -> "ens4"
      [] s = "n6-cidr" -> Cidr34
      [] s = "n6-gateway" -> "5.6.8.3"
      [] s = "n6-interface" -> "ens6"

(* The assignments that give each setting its test value or its second     *)
(* value.                                                                  *)
Assignments ==
    {[s \in Settings |-> IF s \in alt THEN SecondValue(s) ELSE TestConfig[s]] :
        alt \in SUBSET Settings}

(* A deployment with one of the assignments, in a cluster where no call    *)
(* fails and the pod template carries annotations.                         *)
AssignmentInit ==
    /\ config \in Assignments
    /\ canConnect = TRUE
    /\ stable = TRUE
    /\ nads = [k \in Networks |-> NoNad]
    /\ sts = [has_annotations |-> TRUE,
              annotations |-> [x \in {OTHER_KEY} |-> "3.1"]]
    /\ marker = FALSE
    /\ file = <<>>
    /\ layers = <<>>
    /\ started = {}
    /\ status = "Unknown"
    /\ deferred = FALSE
    /\ pending = "none"
    /\ handler = "none"
    /\ pc = "idle"
    /\ result = "none"
    /\ statefulset = NoObject
    /\ calls = <<>>
    /\ pre = Snapshot
    /\ ruleFailed = FALSE

(* The handlers, the settings being left as deployed.                      *)
AssignmentNext ==
    \/ EmitConfigChanged(config)
    \/ EmitRemove
    \/ CanConnect
    \/ WriteConfigFile
    \/ \E k \in Networks : NadCheck(k)
    \/ \E k \in Networks : NadCreate(k)
    \/ AnnotationCheck
    \/ AddAnnotationGet
    \/ AddAnnotationPatch
    \/ Probe
    \/ \E i \in 1..5 : ConfigureRule(i)
    \/ AddLayer
    \/ Replan
    \/ SetActive
    \/ \E k \in Networks : NadDelete(k)

AssignmentSpec == AssignmentInit /\ [][AssignmentNext]_vars

(* C16: for every assignment of the nine settings, each create of a        *)
(* network attachment definition carries a chain of a macvlan plugin and a *)
(* tuning plugin, the macvlan plugin having as master the interface        *)
(* setting of the network the definition is named after and as its single  *)
(* route the default route through that network's gateway setting, never   *)
(* the interface or gateway of another network.                            *)
C16_NadCarriesOwnSettings ==
    \A i \in 1..Len(calls) :
      calls[i].op = "nad_create"
      => \E k \in Networks :
           /\ calls[i].name = NadName(k)
           /\ LET chain == calls[i].arg[2].plugins
              IN  /\ Len(chain) = 2
                  /\ chain[1].type = "macvlan"
                  /\ chain[1].master = config[k \o "-interface"]
                  /\ Len(chain[1].routes) = 1
                  /\ chain[1].routes[1].dst = "0.0.0.0/0"
                  /\ chain[1].routes[1].gw = config[k \o "-gateway"]
                  /\ chain[2].type = "tuning"

(* The three definitions were created under an assignment in which the     *)
(* three interfaces differ from each other, and so do the three gateways.  *)
C16_Witness ==
    /\ Returned("config_changed")
    /\ Len(CallsOf("nad_create")) = 3
    /\ config["n3-interface"] # config["n4-interface"]
    /\ config["n4-interface"] # config["n6-interface"]
    /\ config["n3-interface"] # config["n6-interface"]
    /\ config["n3-gateway"] # config["n4-gateway"]
    /\ config["n4-gateway"] # config["n6-gateway"]
    /\ config["n3-gateway"] # config["n6-gateway"]

-----------------------------------------------------------------------------
(* C17: the last of the five rule commands is executed with the argument   *)
(* list ip, route, add, default, via, <n6-gateway>, dev, n6, table, n6if,  *)
(* "table" and "n6if" being two separate arguments.                        *)
C17_LastRuleCommand ==
    (handler = "config_changed" /\ Len(Execs) = 6)
    => Execs[6].arg = <<"ip", "route", "add", "default", "via",
                        config["n6-gateway"], "dev", "n6", "table", "n6if">>

-----------------------------------------------------------------------------
(* C18: a config-changed invocation that finds part of the artifacts in    *)
(* place, as an earlier invocation that stopped midway leaves them, issues *)
(* no create for a network attachment definition that exists, no patch     *)
(* when the annotation key is present, and no rule command when the policy *)
(* rule is in place; it creates what is missing, so that when it has       *)
(* returned every definition and the annotation exist, each missing one    *)
(* created by exactly one call.                                            *)
C18_ResumesWhereItStopped ==
    (/\ handler = "config_changed"
     /\ pre.reachable
     /\ pre.nads # {}
     /\ pre.nads # Networks \/ ~pre.annotation \/ ~pre.marker)
    => /\ \A k \in pre.nads : Count("nad_create", NadName(k)) = 0
       /\ pre.annotation => CallsOf("sts_patch") = <<>>
       /\ pre.marker => Len(Execs) <= 1
       /\ result = "returned"
            => /\ \A k \in Networks :
                    /\ nads[k].exists
                    /\ k \notin pre.nads => Count("nad_create", NadName(k)) = 1
               /\ sts.has_annotations /\ MULTUS_KEY \in DOMAIN sts.annotations
               /\ ~pre.annotation => Len(CallsOf("sts_patch")) = 1

-----------------------------------------------------------------------------
(* C19: a config-changed invocation that has reached the annotation step   *)
(* with the key k8s.v1.cni.cncf.io/networks absent from the pod template,  *)
(* the template having other annotations or none at all, and in which no   *)
(* call fails, issues exactly one StatefulSet merge patch; the patch adds   *)
(* the key with, per network, ips equal to that network's CIDR setting and *)
(* gateway equal to its gateway setting, and leaves every annotation that  *)
(* was there unchanged.                                                    *)
C19_AnnotationAdded ==
    (/\ Finished("config_changed")
     /\ pre.reachable
     /\ ~pre.annotation
     /\ AllCallsSucceeded
     /\ CallsOf("sts_get") # <<>>)
    => /\ Len(CallsOf("sts_patch")) = 1
       /\ LET value == PatchedValue(CallsOf("sts_patch")[1])[2]
          IN  /\ Len(value) = 3
              /\ \A i \in 1..3 :
                   \E k \in Networks :
                     /\ value[i].name = NadName(k)
                     /\ value[i].ips = <<config[k \o "-cidr"]>>
                     /\ value[i].gateway = <<config[k \o "-gateway"]>>
       /\ sts.has_annotations
       /\ MULTUS_KEY \in DOMAIN sts.annotations
       /\ pre.has_annotations => sts.annotations[OTHER_KEY] = "3.1"

-----------------------------------------------------------------------------
(* C20: when a config-changed invocation has set the status to Active,     *)
(* then in that invocation, for each of N3, N4 and N6, the get of the      *)
(* definition succeeded or its create returned without error, and the      *)
(* annotation key was found or the patch returned without error; no create *)
(* of a definition and no StatefulSet get or patch of it failed.           *)
C20_ActiveImpliesArtifacts ==
    (Returned("config_changed") /\ pre.reachable /\ status = "Active")
    => /\ \A k \in Networks :
            \E i \in 1..Len(calls) :
              /\ calls[i].op \in {"nad_get", "nad_create"}
              /\ calls[i].name = NadName(k)
              /\ calls[i].outcome = "ok"
       /\ \/ /\ pre.annotation
             /\ CallsOf("sts_patch") = <<>>
             /\ \E i \in 1..Len(calls) :
                  calls[i].op = "sts_get" /\ calls[i].outcome = "ok"
          \/ \E i \in 1..Len(calls) :
                  calls[i].op = "sts_patch" /\ calls[i].outcome = "ok"
       /\ \A i \in 1..Len(calls) :
            calls[i].op \in {"nad_create", "sts_get", "sts_patch"}
            => calls[i].outcome = "ok"

(* Active was set by an invocation in which a get of a definition failed   *)
(* and the create that followed succeeded.                                 *)
C20_Witness ==
    /\ Returned("config_changed")
    /\ status = "Active"
    /\ \E i \in 1..Len(calls) :
         calls[i].op = "nad_get" /\ calls[i].outcome = "ApiError"
    /\ \E i \in 1..Len(calls) :
         calls[i].op = "sts_patch" /\ calls[i].outcome = "ok"

-----------------------------------------------------------------------------
(* C21: the unit status is changed only by config-changed, to Waiting at   *)
(* the container check when the container is unreachable and to Active at  *)
(* the last statement; a config-changed invocation that an exception ends  *)
(* after the container check leaves the status as it was at entry, a       *)
(* previous Active included, and remove leaves the status as it was.       *)
C21_StatusWrites ==
    /\ [](/\ status \in {"Unknown", "Waiting", "Active"}
          /\ (/\ Finished("config_changed")
              /\ result # "returned"
              /\ pre.reachable) => status = pre.status
          /\ handler = "remove" => status = pre.status)
    /\ [][status' # status
            => /\ handler = "config_changed"
               /\ \/ pc = "can_connect" /\ ~canConnect /\ status' = "Waiting"
                  \/ pc = "set_active" /\ status' = "Active"]_vars

(* An invocation entered with the status Active was ended by an exception  *)
(* after it had issued calls, and the status is still Active.              *)
C21_Witness ==
    /\ Finished("config_changed")
    /\ result # "returned"
    /\ pre.reachable
    /\ pre.status = "Active"
    /\ status = "Active"
    /\ calls # <<>>

-----------------------------------------------------------------------------
(* C22: the exit results of the five rule commands are never seen by the   *)
(* handler: after a non-zero exit of any of them no exception ends the     *)
(* invocation, the remaining commands are executed, add_layer and replan   *)
(* follow and the status is set to Active, so that an Active status does   *)
(* not tell that the policy rule is in place.                              *)
C22_RuleExitsIgnored ==
    /\ \A i \in 2..Len(Execs) : Execs[i].outcome.exit = "not awaited"
    /\ ruleFailed
       => /\ handler = "config_changed"
          /\ result \in {"running", "returned"}
          /\ \/ Len(Execs) <= 5 /\ pc = RulePc(Len(Execs))
             \/ Len(Execs) = 6 /\ C7_PastRuleStep
          /\ pc = "replan" => calls[Len(calls)].op = "add_layer"
          /\ pc = "set_active" => calls[Len(calls)].op = "replan"
          /\ result = "returned"
               => /\ status = "Active"
                  /\ calls[Len(calls)].op = "replan"

(* A rule command exited non-zero, the invocation went on to set Active,   *)
(* and the policy rule is not in place.                                    *)
C22_Witness ==
    /\ Returned("config_changed")
    /\ ruleFailed
    /\ Len(Execs) = 6
    /\ status = "Active"
    /\ ~marker

====
